---- MODULE Spec2Model ----
(***************************************************************************)
(* A model of the cipher emulator's Enigma machine (src/src/enigma.rs) and *)
(* of the text plumbing it stands on (src/src/cipher.rs, src/src/main.rs). *)
(*                                                                         *)
(* Characters are one-character strings.  A HashMap<char, char> is a       *)
(* function whose domain is the set of its keys.  A file is a record       *)
(* [exists, content]: the lines of a key-material file, each the JSON value*)
(* it holds, or the characters of a text file.  A Result is a record [ok, val] or [ok, err]; a panic (unwrap,   *)
(* expect, index out of bounds, empty random range) is a Result whose err  *)
(* starts with "panic".                                                    *)
(***************************************************************************)
EXTENDS Integers, Sequences, FiniteSets, TLC

(***************************************************************************)
(* Bounds of the model.                                                    *)
(***************************************************************************)
\* The alphabets considered are the prefixes of Letters of length 1..MaxAlphabetLen.
MaxAlphabetLen == 4
\* The longest plugboard line the plugboard reader is fed, in characters.
MaxLineLen == 3
\* The most lines the plugboard reader is fed.
MaxPlugLines == 2
\* The alphabets of a machine that enciphers a text are the prefixes of Letters
\* of length 1..MaxMachineAlphabetLen.
MaxMachineAlphabetLen == 3
\* The longest text the machine is given.
MaxTextLen == 2
\* The most rotors of a machine that enciphers a text.
MaxRotorNum == 1
\* The shuffle outcomes considered for a generated rotor order where every
\* outcome is too many: the MaxOrders least in lexicographic order.
MaxOrders == 2
\* The Caesar shifts considered: those of magnitude up to MaxShift, and those
\* within MaxShift of the least and of the greatest i32.
MaxShift == 4
\* The longest keyword of the polyalphabetic cipher.
MaxKeywordLen == 2

(***************************************************************************)
(* Program constants.                                                      *)
(***************************************************************************)
\* main.rs: Arg::new("rotor_num") ... .default_value("3")
DefaultRotorNum == 3
\* caesar.rs: shift: i32; the greatest and the least i32.
MaxI32 == 2147483647

MinI32 == (-MaxI32) - 1

(***************************************************************************)
(* Characters.                                                             *)
(***************************************************************************)
\* main.rs: let alphabet: &str = "ABCDEFGHIJKLMNOPQRSTUVWXYZ";
Letters ==
    << "A", "B", "C", "D", "E", "F", "G", "H", "I", "J", "K", "L", "M",
       "N", "O", "P", "Q", "R", "S", "T", "U", "V", "W", "X", "Y", "Z" >>

LowerLetters ==
    << "a", "b", "c", "d", "e", "f", "g", "h", "i", "j", "k", "l", "m",
       "n", "o", "p", "q", "r", "s", "t", "u", "v", "w", "x", "y", "z" >>

\* A character that is no ASCII letter.
Digit == "1"

Range(s) == { s[i] : i \in DOMAIN s }

Prefix(s, n) == SubSeq(s, 1, n)

\* char::to_ascii_uppercase
ToAsciiUppercase(ch) ==
    IF \E i \in DOMAIN LowerLetters : LowerLetters[i] = ch
    THEN Letters[CHOOSE i \in DOMAIN LowerLetters : LowerLetters[i] = ch]
    ELSE ch

\* char::is_ascii_alphabetic
IsAsciiAlphabetic(ch) == ch \in Range(Letters) \cup Range(LowerLetters)

(***************************************************************************)
(* Results and maps.                                                       *)
(***************************************************************************)
Ok(v) == [ok |-> TRUE, val |-> v]

Err(e) == [ok |-> FALSE, err |-> e]

EmptyMap == [x \in {} |-> x]

\* HashMap::insert: a new key is added, an old key's value is replaced.
MapInsert(m, k, v) == [x \in DOMAIN m \cup {k} |-> IF x = k THEN v ELSE m[x]]

\* HashMap::values
MapValues(m) == { m[k] : k \in DOMAIN m }

\* *map.get(&ch).unwrap_or(&ch)
GetOrSelf(m, ch) == IF ch \in DOMAIN m THEN m[ch] ELSE ch

MissingFile == [exists |-> FALSE, content |-> << >>]

FileOf(ls) == [exists |-> TRUE, content |-> ls]

(***************************************************************************)
(* The outcomes of a shuffle of s: every permutation of s.                 *)
(***************************************************************************)
Bijections(n) ==
    { p \in [1..n -> 1..n] : \A i, j \in 1..n : i # j => p[i] # p[j] }

Shuffles(s) == { [i \in 1..Len(s) |-> s[p[i]]] : p \in Bijections(Len(s)) }

(***************************************************************************)
(* The state.                                                              *)
(***************************************************************************)
VARIABLES
    alphabet,            \* Cipher.alphabet
    plain_text,          \* Cipher.plain_text
    encrypted_text,      \* Cipher.encrypted_text
    input_file,          \* the file at Cipher.input_file
    output_file,         \* the file at Cipher.output_file
    reflector,           \* EnigmaMachine.reflector
    rotors,              \* EnigmaMachine.rotors
    plugboard,           \* EnigmaMachine.plugboard
    reflector_file,      \* the key-material store: the reflector record
    passwords_file,      \*   one wiring per line
    rotors_cursor_file,  \*   one cursor per line
    plugboard_file,      \*   one pair per line
    rotor_num,           \* the arguments of EnigmaMachine::new
    reflector_from,
    rotors_from,
    pc,                  \* where the process is
    line,                \* set_plugboard: the line the reader has just yielded
    pairs,               \* history: the (left, right) of every pair-line parsed
    calls,               \* history: the calls of link_and_move_rotors(0) made
    stepped,             \* history: how often each rotor has been stepped
    initial_rotors,      \* history: the rotors as construction left them
    first_text,          \* history: the text the first run enciphered
    run,                 \* history: 1 in the first run of the program, 2 in the second
    caesar_shift,        \* CaesarCipher.shift
    key,                 \* PolyalphabeticCipher.key
    decrypt,             \* PolyalphabeticCipher.decrypt
    decrypt_flag,        \* the command line: TRUE when --decrypt is given
    overflow_checks,     \* the build: TRUE if integer overflow panics, FALSE if it wraps
    error                \* the message of the error or panic that ended the run

vars ==
    << alphabet, plain_text, encrypted_text, input_file, output_file,
       reflector, rotors, plugboard, reflector_file, passwords_file,
       rotors_cursor_file, plugboard_file, rotor_num, reflector_from,
       rotors_from, pc, line, pairs, calls, stepped, initial_rotors,
       first_text, run, error, caesar_shift, overflow_checks, key, decrypt, decrypt_flag >>

textVars == << plain_text, encrypted_text, input_file, output_file, first_text, run >>

reflectorVars == << reflector, reflector_file, reflector_from >>

rotorVars ==
    << rotors, rotor_num, rotors_from, passwords_file, rotors_cursor_file, calls,
       stepped, initial_rotors >>

plugVars == << plugboard, plugboard_file, line, pairs >>

caesarVars == << caesar_shift, overflow_checks >>

polyVars == << key, decrypt, decrypt_flag >>

Alphabets == { Prefix(Letters, n) : n \in 1..MaxAlphabetLen }

\* The characters of the largest alphabet considered.
Symbols == Range(Prefix(Letters, MaxAlphabetLen))

\* Every one-character string of the model; any other string has more characters.
Chars == Range(Letters) \cup Range(LowerLetters) \cup {Digit, "-", " "}

(***************************************************************************)
(* The reflector.                                                          *)
(***************************************************************************)
\* serde_json::to_string(&HashMap<char, char>): a JSON object, one member per entry.
map_to_json(m) == [kind |-> "object", val |-> m]

\* serde_json::from_str::<HashMap<char, char>>: the value must be an object whose
\* keys and values are strings of exactly one character.
map_from_json(json) ==
    IF /\ json.kind = "object"
       /\ \A k \in DOMAIN json.val : k \in Chars /\ json.val[k] \in Chars
    THEN Ok(json.val)
    ELSE Err("InvalidData")

RECURSIVE pair_plugs_one_way(_, _, _, _)
\* pair_plugs without its second insert.
pair_plugs_one_way(plugs, num, i, m) ==
    IF i >= num
    THEN m
    ELSE pair_plugs_one_way(plugs, num, i + 1,
                            MapInsert(m, plugs[i + 1], plugs[i + num + 1]))

RECURSIVE pair_plugs_off_by_one(_, _, _, _)
\* pair_plugs taking the partner one place too early.
pair_plugs_off_by_one(plugs, num, i, m) ==
    IF i >= num
    THEN m
    ELSE LET left == plugs[i + 1]
             right == plugs[i + num]
         IN pair_plugs_off_by_one(plugs, num, i + 1,
                                  MapInsert(MapInsert(m, left, right), right, left))

RECURSIVE pair_plugs_closing(_, _, _, _)
\* pair_plugs mapping every symbol it has not paired to itself.
pair_plugs_closing(plugs, num, i, m) ==
    IF i >= num
    THEN [s \in Range(plugs) |-> IF s \in DOMAIN m THEN m[s] ELSE s]
    ELSE LET left == plugs[i + 1]
             right == plugs[i + num + 1]
         IN pair_plugs_closing(plugs, num, i + 1,
                               MapInsert(MapInsert(m, left, right), right, left))

RECURSIVE pair_plugs(_, _, _, _)
\* create_reflector's loop, from iteration i on (i counts from 0, as in the source).
pair_plugs(plugs, num, i, m) ==
    IF i >= num
    THEN m
    ELSE LET left == plugs[i + 1]
             right == plugs[i + num + 1]
         IN pair_plugs(plugs, num, i + 1,
                       MapInsert(MapInsert(m, left, right), right, left))

\* create_reflector, for the outcome plugs of the shuffle: the map it returns.
create_reflector(plugs) == pair_plugs(plugs, Len(plugs) \div 2, 0, EmptyMap)

\* load_reflector
load_reflector(file) ==
    IF ~file.exists THEN Err("NotFound")
    ELSE IF file.content = << >> THEN Err("File is empty")
    ELSE map_from_json(file.content[1])

\* use_reflector
use_reflector(m, ch) == GetOrSelf(m, ch)

\* The reflector records a store may hold: no file, an empty file, a line that
\* is no JSON object, or an object over the symbols and one foreign character.
ReflectorRecords ==
    { MissingFile, FileOf(<< >>), FileOf(<< [kind |-> "garbage", val |-> << >>] >>) }
    \cup { FileOf(<< map_to_json(m) >>) :
             m \in UNION { [D -> Symbols \cup {Digit}] : D \in SUBSET Symbols } }

(***************************************************************************)
(* The plugboard.  A pair-line is a sequence of characters.                *)
(***************************************************************************)
\* The first index of character c in s, 0 when there is none.
Find(s, c) ==
    IF \E i \in DOMAIN s : s[i] = c
    THEN CHOOSE i \in DOMAIN s : s[i] = c /\ \A j \in 1..(i - 1) : s[j] # c
    ELSE 0

RECURSIVE trim_start(_)
trim_start(s) == IF s # << >> /\ s[1] = " " THEN trim_start(Tail(s)) ELSE s

RECURSIVE trim_end(_)
trim_end(s) ==
    IF s # << >> /\ s[Len(s)] = " " THEN trim_end(SubSeq(s, 1, Len(s) - 1)) ELSE s

\* str::trim
trim(s) == trim_end(trim_start(s))

\* plugboard_line without the check for a duplicate key.
plugboard_line_no_key_check(m, l) ==
    LET at == Find(l, "-")
        left_side == trim(SubSeq(l, 1, at - 1))
        right_side == trim(SubSeq(l, at + 1, Len(l)))
        left == ToAsciiUppercase(left_side[1])
        right == ToAsciiUppercase(right_side[1])
    IN IF at = 0 THEN Err("Invalid plugboard format")
       ELSE IF left_side = << >> THEN Err("Invalid plugboard format")
       ELSE IF right_side = << >> THEN Err("Invalid plugboard format")
       ELSE IF right \in MapValues(m) THEN Err("Duplicate value in plugboard")
       ELSE Ok(MapInsert(MapInsert(m, left, right), right, left))

\* plugboard_line without the check for a duplicate value.
plugboard_line_no_value_check(m, l) ==
    LET at == Find(l, "-")
        left_side == trim(SubSeq(l, 1, at - 1))
        right_side == trim(SubSeq(l, at + 1, Len(l)))
        left == ToAsciiUppercase(left_side[1])
        right == ToAsciiUppercase(right_side[1])
    IN IF at = 0 THEN Err("Invalid plugboard format")
       ELSE IF left_side = << >> THEN Err("Invalid plugboard format")
       ELSE IF right_side = << >> THEN Err("Invalid plugboard format")
       ELSE IF left \in DOMAIN m THEN Err("Duplicate key in plugboard")
       ELSE Ok(MapInsert(MapInsert(m, left, right), right, left))

\* set_plugboard's loop body for one line, on the map built so far: the map with
\* the line's pair inserted, or the error the function returns with.
plugboard_line(m, l) ==
    LET at == Find(l, "-")
        left_side == trim(SubSeq(l, 1, at - 1))
        right_side == trim(SubSeq(l, at + 1, Len(l)))
        left == ToAsciiUppercase(left_side[1])
        right == ToAsciiUppercase(right_side[1])
    IN IF at = 0 THEN Err("Invalid plugboard format")
       ELSE IF left_side = << >> THEN Err("Invalid plugboard format")
       ELSE IF right_side = << >> THEN Err("Invalid plugboard format")
       ELSE IF left \in DOMAIN m THEN Err("Duplicate key in plugboard")
       ELSE IF right \in MapValues(m) THEN Err("Duplicate value in plugboard")
       ELSE Ok(MapInsert(MapInsert(m, left, right), right, left))

\* The pair a line names, once it has passed the format checks.
line_pair(l) ==
    LET at == Find(l, "-")
    IN << ToAsciiUppercase(trim(SubSeq(l, 1, at - 1))[1]),
          ToAsciiUppercase(trim(SubSeq(l, at + 1, Len(l)))[1]) >>

well_formed(l) ==
    LET at == Find(l, "-")
    IN /\ at # 0
       /\ trim(SubSeq(l, 1, at - 1)) # << >>
       /\ trim(SubSeq(l, at + 1, Len(l))) # << >>

RECURSIVE plugboard_lines(_, _, _)
\* set_plugboard's loop over the lines from line i on.
plugboard_lines(m, ls, i) ==
    IF i > Len(ls)
    THEN Ok(m)
    ELSE LET r == plugboard_line(m, ls[i])
         IN IF r.ok THEN plugboard_lines(r.val, ls, i + 1) ELSE r

\* set_plugboard
set_plugboard(file) ==
    IF ~file.exists THEN Err("NotFound") ELSE plugboard_lines(EmptyMap, file.content, 1)

\* use_plugboard
use_plugboard(m, ch) == GetOrSelf(m, ch)

\* The characters of the lines the plugboard reader is fed.
LineChars == Range(Prefix(Letters, 3)) \cup {"a", "-", " "}

PlugLines == UNION { [1..n -> LineChars] : n \in 0..MaxLineLen }

(***************************************************************************)
(* Rotors.  A Rotor is a record [order, cursor]; order[cursor] of the      *)
(* source, which counts from 0, is order[cursor + 1] here.                 *)
(***************************************************************************)
\* Rotor::new
Rotor(order, cursor) == [order |-> order, cursor |-> cursor]

\* order_range counting from 0.
order_range_from_zero(a) == [i \in 1..(Len(a) - 1) |-> i - 1]

\* generate_order before its shuffle: (1..alphabet.len()).collect()
order_range(a) == [i \in 1..(Len(a) - 1) |-> i]

\* generate_order: the orders its shuffle can produce.
generate_order(a) == Shuffles(order_range(a))

\* set_order failing where the source only warns.
set_order_strict(a, order_vec) ==
    IF Len(order_vec) # Len(a) - 1
    THEN Err("Invalid order vector length")
    ELSE IF Cardinality(Range(order_vec)) # Len(order_vec)
    THEN Err("Duplicate element found in order vector")
    ELSE Ok(order_vec)

\* set_order: the checks only warn; the vector is returned as it is.
set_order(a, order_vec) == Ok(order_vec)

\* generate_cursor: the cursors random_range(0..order.len()) can produce; an
\* empty range panics.
generate_cursor(order) ==
    IF Len(order) = 0
    THEN Err("panic: cannot sample empty range")
    ELSE Ok(0..(Len(order) - 1))

\* set_cursor accepting a cursor one past the end of the wiring.
set_cursor_off_by_one(order, cursor) ==
    IF cursor <= Len(order) THEN Ok(cursor) ELSE Err("Invalid cursor")

\* set_cursor accepting every cursor.
set_cursor_unchecked(order, cursor) == Ok(cursor)

\* set_cursor
set_cursor(order, cursor) ==
    IF cursor < Len(order) THEN Ok(cursor) ELSE Err("Invalid cursor")

\* step moving the first value of the wiring to its end as well.
step_rotating_order(rotor) ==
    [order |-> IF rotor.order = << >> THEN << >>
               ELSE Append(Tail(rotor.order), Head(rotor.order)),
     cursor |-> (rotor.cursor + 1) % Len(rotor.order)]

\* Rotor::step
step(rotor) ==
    [rotor EXCEPT !.cursor = (rotor.cursor + 1) % Len(rotor.order)]

RECURSIVE move_always_carrying(_, _, _)
\* move_from carrying into the next rotor whether or not the cursor wrapped.
move_always_carrying(rs, i, log) ==
    IF i >= Len(rs)
    THEN Err("panic: index out of bounds")
    ELSE LET moved == [rs EXCEPT ![i + 1] = step(rs[i + 1])]
         IN IF i < Len(rs) - 1
            THEN move_always_carrying(moved, i + 1, Append(log, i))
            ELSE Ok([rotors |-> moved, log |-> Append(log, i)])

RECURSIVE move_stepping_twice(_, _, _)
\* move_from stepping every rotor it reaches twice.
move_stepping_twice(rs, i, log) ==
    IF i >= Len(rs)
    THEN Err("panic: index out of bounds")
    ELSE LET moved == [rs EXCEPT ![i + 1] = step(step(rs[i + 1]))]
         IN IF moved[i + 1].cursor = 0 /\ i < Len(rs) - 1
            THEN move_stepping_twice(moved, i + 1, log \o << i, i >>)
            ELSE Ok([rotors |-> moved, log |-> log \o << i, i >>])

\* move_from stepping rotor i and never carrying into the next rotor.
move_never_carrying(rs, i, log) ==
    IF i >= Len(rs)
    THEN Err("panic: index out of bounds")
    ELSE Ok([rotors |-> [rs EXCEPT ![i + 1] = step(rs[i + 1])],
             log |-> Append(log, i)])

RECURSIVE move_from(_, _, _)
\* link_and_move_rotors(i) on the rotors rs, after the rotors in log were stepped
\* by the calls above it: the rotors it leaves and the rotors stepped, in order.
move_from(rs, i, log) ==
    IF i >= Len(rs)
    THEN Err("panic: index out of bounds")
    ELSE LET moved == [rs EXCEPT ![i + 1] = step(rs[i + 1])]
         IN IF moved[i + 1].cursor = 0 /\ i < Len(rs) - 1
            THEN move_from(moved, i + 1, Append(log, i))
            ELSE Ok([rotors |-> moved, log |-> Append(log, i)])

\* link_and_move_rotors
link_and_move_rotors(rs, i) == move_from(rs, i, << >>)

(***************************************************************************)
(* The rotor key material.                                                 *)
(***************************************************************************)
\* serde_json::to_string(&Vec<usize>)
order_to_json(order) == [kind |-> "array", val |-> order]

\* serde_json::from_str::<Vec<usize>>(..).expect("Failed to parse order")
order_from_json(json) ==
    IF json.kind = "array" /\ \A i \in DOMAIN json.val : json.val[i] \in Nat
    THEN Ok(json.val)
    ELSE Err("panic: Failed to parse order")

\* format!("{}\n", rotor.cursor)
cursor_to_line(cursor) == [kind |-> "number", val |-> cursor]

\* line.parse::<usize>().expect("Failed to parse cursor")
cursor_from_line(l) ==
    IF l.kind = "number" /\ l.val \in Nat
    THEN Ok(l.val)
    ELSE Err("panic: Failed to parse cursor")

\* The first error among the results rs, or Ok of their values.
Collect(rs) ==
    IF \E i \in DOMAIN rs : ~rs[i].ok
    THEN rs[CHOOSE i \in DOMAIN rs : ~rs[i].ok /\ \A j \in 1..(i - 1) : rs[j].ok]
    ELSE Ok([i \in DOMAIN rs |-> rs[i].val])

\* generate_rotors, for the outcomes picks (one order and cursor per rotor) of its
\* random draws: the rotors and the two files it writes.
generate_rotors(a, num, picks) ==
    IF \E i \in 1..num : Len(picks[i].order) = 0
    THEN generate_cursor(<< >>)
    ELSE Ok([rotors |-> [i \in 1..num |-> Rotor(picks[i].order, picks[i].cursor)],
             passwords |-> FileOf([i \in 1..num |-> order_to_json(picks[i].order)]),
             cursors |-> FileOf([i \in 1..num |-> cursor_to_line(picks[i].cursor)])])

\* count_mismatch rejecting only too few lines.
count_mismatch_accepting_more(passwords, cursors, num) ==
    Len(passwords) < num \/ Len(cursors) < num

\* load_rotors' comparison of the numbers of lines read with rotor_num.
count_mismatch(passwords, cursors, num) ==
    Len(passwords) # num \/ Len(cursors) # num

\* load_rotors
load_rotors(a, num, pfile, cfile) ==
    LET passwords == Collect([i \in DOMAIN pfile.content |-> order_from_json(pfile.content[i])])
        cursors == Collect([i \in DOMAIN cfile.content |-> cursor_from_line(cfile.content[i])])
        loaded == Collect([i \in 1..num |->
                     LET order == set_order(a, passwords.val[i])
                         cursor == set_cursor(order.val, cursors.val[i])
                     IN IF ~order.ok THEN order
                        ELSE IF ~cursor.ok THEN cursor
                        ELSE Ok(Rotor(order.val, cursor.val))])
    IN IF ~pfile.exists THEN Err("NotFound")
       ELSE IF ~passwords.ok THEN passwords
       ELSE IF Len(passwords.val) = 0 THEN Err("panic: index out of bounds")
       ELSE IF ~cfile.exists THEN Err("NotFound")
       ELSE IF ~cursors.ok THEN cursors
       ELSE IF count_mismatch(passwords.val, cursors.val, num)
       THEN Err("The number of rotors does not match the expected number")
       ELSE loaded

(***************************************************************************)
(* set_reflector alone: the reflector is created or loaded.                *)
(***************************************************************************)
\* What the parts of the state hold while the process has no use of them.
NoText ==
    /\ plain_text = << >>
    /\ encrypted_text = << >>
    /\ input_file = MissingFile
    /\ output_file = MissingFile
    /\ first_text = << >>
    /\ run = 1

NoReflector ==
    /\ reflector = EmptyMap
    /\ reflector_file = MissingFile
    /\ reflector_from = "M"

NoRotors ==
    /\ rotors = << >>
    /\ rotor_num = 0
    /\ rotors_from = "M"
    /\ passwords_file = MissingFile
    /\ rotors_cursor_file = MissingFile
    /\ calls = 0
    /\ stepped = << >>
    /\ initial_rotors = << >>

NoPlugboard ==
    /\ plugboard = EmptyMap
    /\ plugboard_file = MissingFile
    /\ line = << >>
    /\ pairs = << >>

NoCaesar ==
    /\ caesar_shift = 0
    /\ overflow_checks = FALSE

NoPoly ==
    /\ key = << >>
    /\ decrypt = FALSE
    /\ decrypt_flag = FALSE

\* set_reflector: what it returns and the reflector file it leaves, for the
\* outcome plugs of create_reflector's shuffle.
set_reflector(from, file, plugs) ==
    IF from = "m"
    THEN [result |-> Ok(create_reflector(plugs)),
          file |-> FileOf(<< map_to_json(create_reflector(plugs)) >>)]
    ELSE [result |-> load_reflector(file), file |-> file]

InitReflector ==
    /\ alphabet \in Alphabets
    /\ reflector_from \in {"m", "M"}
    /\ reflector_file \in IF reflector_from = "m" THEN {MissingFile} ELSE ReflectorRecords
    /\ reflector = EmptyMap
    /\ pc = "start"
    /\ error = ""
    /\ NoPoly /\ NoCaesar /\ NoText /\ NoRotors /\ NoPlugboard

SetReflector ==
    /\ pc = "start"
    /\ \E plugs \in IF reflector_from = "m" THEN Shuffles(alphabet) ELSE {alphabet} :
         LET r == set_reflector(reflector_from, reflector_file, plugs)
         IN /\ reflector_file' = r.file
            /\ IF r.result.ok
               THEN /\ reflector' = r.result.val
                    /\ pc' = "reflector_set"
                    /\ error' = error
               ELSE /\ reflector' = reflector
                    /\ pc' = "panicked"
                    /\ error' = r.result.err
    /\ UNCHANGED << polyVars, caesarVars, alphabet, reflector_from, textVars, rotorVars, plugVars >>

NextReflector == SetReflector

SpecReflector == InitReflector /\ [][NextReflector]_vars

\* A map is an involution over the whole alphabet a: one entry per symbol, no
\* value twice, and applying it twice gives the symbol back.
TotalInvolution(m, a) ==
    /\ DOMAIN m = Range(a)
    /\ Cardinality(DOMAIN m) = Len(a)
    /\ Cardinality(MapValues(m)) = Len(a)
    /\ \A s \in Range(a) : use_reflector(m, use_reflector(m, s)) = s

Created == pc = "reflector_set" /\ reflector_from = "m"

\* C3: a reflector that create_reflector produces for an alphabet of even length L
\* has exactly L entries, no value twice, and reflector[reflector[s]] = s for every
\* symbol s of the alphabet, whatever the shuffle's outcome.
C3_CreatedReflectorIsInvolution ==
    (Created /\ Len(alphabet) % 2 = 0) => TotalInvolution(reflector, alphabet)

C3_Witness ==
    /\ Created
    /\ Len(alphabet) = 4
    /\ reflector[alphabet[1]] = alphabet[4]
    /\ reflector[alphabet[4]] = alphabet[1]

\* C4: a reflector that create_reflector produces for an alphabet of even length
\* maps no symbol of the alphabet to itself.
C4_CreatedReflectorHasNoFixedPoint ==
    (Created /\ Len(alphabet) % 2 = 0) =>
        \A s \in Range(alphabet) : use_reflector(reflector, s) # s

C4_Witness ==
    /\ Created
    /\ Len(alphabet) = 2
    /\ use_reflector(reflector, alphabet[1]) = alphabet[2]

\* C25: for an alphabet of odd length L, create_reflector produces a map with
\* exactly L - 1 entries that is an involution on them and leaves exactly one
\* symbol of the alphabet unmapped, and use_reflector returns that symbol
\* unchanged.
C25_OddAlphabetLeavesOneSymbol ==
    (Created /\ Len(alphabet) % 2 = 1) =>
        /\ DOMAIN reflector \subseteq Range(alphabet)
        /\ Cardinality(DOMAIN reflector) = Len(alphabet) - 1
        /\ \A s \in DOMAIN reflector :
               /\ reflector[s] \in DOMAIN reflector
               /\ reflector[reflector[s]] = s
        /\ Cardinality(Range(alphabet) \ DOMAIN reflector) = 1
        /\ \A s \in Range(alphabet) \ DOMAIN reflector :
               use_reflector(reflector, s) = s

C25_Witness ==
    /\ Created
    /\ Len(alphabet) = 3
    /\ DOMAIN reflector = {"A", "C"}
    /\ use_reflector(reflector, "A") = "C"
    /\ use_reflector(reflector, "B") = "B"

\* C9: the reflector of a machine constructed in load mode is a total involution
\* over the alphabet, for every record load_reflector accepts.
C9_LoadedReflectorIsInvolution ==
    (pc = "reflector_set" /\ reflector_from # "m") => TotalInvolution(reflector, alphabet)

(***************************************************************************)
(* set_plugboard alone.  Its reader yields the file's lines one at a time; *)
(* each step below is one iteration of its loop on the line just read.     *)
(***************************************************************************)
InitPlugboard ==
    /\ alphabet = Letters
    /\ plugboard = EmptyMap
    /\ plugboard_file = FileOf(<< >>)
    /\ line = << >>
    /\ pairs = << >>
    /\ pc = "plug_reading"
    /\ error = ""
    /\ NoPoly /\ NoCaesar /\ NoText /\ NoReflector /\ NoRotors

ReadPlugLine ==
    /\ pc = "plug_reading"
    /\ Len(pairs) < MaxPlugLines
    /\ \E l \in PlugLines :
         LET r == plugboard_line(plugboard, l)
         IN /\ line' = l
            /\ pairs' = IF well_formed(l) THEN Append(pairs, line_pair(l)) ELSE pairs
            /\ IF r.ok
               THEN /\ plugboard' = r.val
                    /\ UNCHANGED << pc, error >>
               ELSE /\ plugboard' = plugboard
                    /\ pc' = "plug_failed"
                    /\ error' = r.err
    /\ UNCHANGED << polyVars, caesarVars, alphabet, plugboard_file, textVars, reflectorVars, rotorVars >>

\* The reader has no more lines: set_plugboard returns Ok(plugboard).
PlugEnd ==
    /\ pc = "plug_reading"
    /\ pc' = "plug_set"
    /\ UNCHANGED << polyVars, caesarVars, alphabet, error, textVars, reflectorVars, rotorVars, plugVars >>

NextPlugboard == ReadPlugLine \/ PlugEnd

SpecPlugboard == InitPlugboard /\ [][NextPlugboard]_vars

\* Some symbol occurs in two of the pairs ps.
Reused(ps) ==
    \E i, j \in DOMAIN ps :
        i < j /\ {ps[i][1], ps[i][2]} \cap {ps[j][1], ps[j][2]} # {}

\* C6: set_plugboard fails for every list of pair-lines in which some symbol
\* occurs in two different pairs, on whichever side of either pair: as long as
\* it has not failed, no symbol has occurred in two of the pairs read.
C6_PlugboardRejectsReuse == Reused(pairs) => pc = "plug_failed"

C6_Witness ==
    /\ pc = "plug_failed"
    /\ pairs = << << "A", "B" >>, << "C", "A" >> >>
    /\ error = "Duplicate value in plugboard"

\* C7: every plugboard set_plugboard returns is an involution: applying it twice
\* gives every symbol back, each wired symbol is the partner of exactly one
\* symbol, and a symbol that is not wired is returned unchanged.
C7_PlugboardIsInvolution ==
    pc = "plug_set" =>
        \A s \in Chars :
            /\ use_plugboard(plugboard, use_plugboard(plugboard, s)) = s
            /\ s \in DOMAIN plugboard =>
                   Cardinality({ t \in DOMAIN plugboard : plugboard[t] = s }) = 1
            /\ s \notin DOMAIN plugboard => use_plugboard(plugboard, s) = s

C7_Witness ==
    /\ pc = "plug_set"
    /\ DOMAIN plugboard = {"A", "B"}
    /\ use_plugboard(plugboard, "A") = "B"
    /\ use_plugboard(plugboard, "C") = "C"

(***************************************************************************)
(* set_rotors and the stepping of the rotors it leaves.                    *)
(***************************************************************************)
\* p comes before q in lexicographic order (p and q of the same length).
LexLess(p, q) ==
    \E i \in DOMAIN p : p[i] < q[i] /\ \A j \in 1..(i - 1) : p[j] = q[j]

\* The MaxOrders lexicographically least of the orders generate_order can produce.
some_orders(a) ==
    { o \in generate_order(a) :
        Cardinality({ q \in generate_order(a) : LexLess(q, o) }) < MaxOrders }

\* The outcomes of one rotor's random draws in generate_rotors.
RotorPicks(a) ==
    { [order |-> o, cursor |-> c] :
        o \in some_orders(a), c \in 0..(IF Len(a) > 1 THEN Len(a) - 2 ELSE 0) }

\* set_rotors: what it returns and the two files it leaves, for the outcomes
\* picks of generate_rotors' random draws.
set_rotors(a, num, pfile, cfile, from, picks) ==
    IF from = "m"
    THEN LET g == generate_rotors(a, num, picks)
         IN IF g.ok
            THEN [result |-> Ok(g.val.rotors),
                  passwords |-> g.val.passwords, cursors |-> g.val.cursors]
            ELSE [result |-> g,
                  passwords |-> FileOf(<< order_to_json(picks[1].order) >>),
                  cursors |-> FileOf(<< >>)]
    ELSE [result |-> load_rotors(a, num, pfile, cfile),
          passwords |-> pfile, cursors |-> cfile]

\* The wirings a persisted wiring line may hold for alphabet a: none, the
\* unshuffled one, and one with a value twice.
LoadableOrders(a) == { << >>, order_range(a), << 1, 1 >> }

FilesOf(Lines) ==
    {MissingFile} \cup
    { FileOf(ls) : ls \in UNION { [1..n -> Lines] : n \in 0..DefaultRotorNum } }

PasswordFiles(a) == FilesOf({ order_to_json(o) : o \in LoadableOrders(a) })

CursorFiles(a) == FilesOf({ cursor_to_line(c) : c \in 0..(Len(a) - 1) })

\* The most calls of link_and_move_rotors(0) followed.
MaxCalls == (MaxAlphabetLen - 1) * (MaxAlphabetLen - 1)

InitRotors ==
    /\ alphabet \in Alphabets
    /\ rotor_num \in 0..DefaultRotorNum
    /\ rotors_from \in {"m", "M"}
    /\ passwords_file \in IF rotors_from = "m" THEN {MissingFile} ELSE PasswordFiles(alphabet)
    /\ rotors_cursor_file \in IF rotors_from = "m" THEN {MissingFile} ELSE CursorFiles(alphabet)
    /\ rotors = [i \in 1..rotor_num |-> Rotor(<< >>, 0)]
    /\ calls = 0
    /\ stepped = [i \in 1..rotor_num |-> 0]
    /\ initial_rotors = << >>
    /\ pc = "start"
    /\ error = ""
    /\ NoPoly /\ NoCaesar /\ NoText /\ NoReflector /\ NoPlugboard

SetRotors ==
    /\ pc = "start"
    /\ \E picks \in IF rotors_from = "m"
                    THEN [1..rotor_num -> RotorPicks(alphabet)]
                    ELSE { << >> } :
         LET r == set_rotors(alphabet, rotor_num, passwords_file,
                             rotors_cursor_file, rotors_from, picks)
         IN /\ passwords_file' = r.passwords
            /\ rotors_cursor_file' = r.cursors
            /\ IF r.result.ok
               THEN /\ rotors' = r.result.val
                    /\ initial_rotors' = r.result.val
                    /\ pc' = "rotors_set"
                    /\ error' = error
               ELSE /\ UNCHANGED << rotors, initial_rotors >>
                    /\ pc' = "panicked"
                    /\ error' = r.result.err
    /\ UNCHANGED << polyVars, caesarVars, alphabet, rotor_num, rotors_from, calls, stepped, textVars,
                    reflectorVars, plugVars >>

\* How often each rotor has been stepped, after a cascade that stepped the rotors in log.
count_steps(counts, log) ==
    [i \in DOMAIN counts |->
        counts[i] + Cardinality({ k \in DOMAIN log : log[k] = i - 1 })]

\* One call of link_and_move_rotors(0).
Move ==
    /\ pc = "rotors_set"
    /\ calls < MaxCalls
    /\ LET r == link_and_move_rotors(rotors, 0)
       IN IF r.ok
          THEN /\ rotors' = r.val.rotors
               /\ stepped' = count_steps(stepped, r.val.log)
               /\ calls' = calls + 1
               /\ UNCHANGED << pc, error >>
          ELSE /\ pc' = "panicked"
               /\ error' = r.err
               /\ UNCHANGED << rotors, stepped, calls >>
    /\ UNCHANGED << polyVars, caesarVars, alphabet, rotor_num, rotors_from, passwords_file,
                    rotors_cursor_file, initial_rotors, textVars, reflectorVars,
                    plugVars >>

NextRotors == SetRotors \/ Move

SpecRotors == InitRotors /\ [][NextRotors]_vars

\* Three rotors, each wiring of length L - 1, every cursor at 0 after construction.
CarrySetting ==
    /\ pc = "rotors_set"
    /\ Len(rotors) = 3
    /\ \A i \in DOMAIN initial_rotors :
           /\ Len(initial_rotors[i].order) = Len(alphabet) - 1
           /\ initial_rotors[i].cursor = 0

\* C2: in a 3-rotor machine whose wirings have length L - 1 and whose cursors start
\* at 0, the first L - 1 calls of link_and_move_rotors(0) take rotor 0 through
\* every position and back to 0 and step rotor 1 exactly once; after (L - 1)^2
\* calls rotor 2 has been stepped exactly once.
C2_SteppingCarryCounts ==
    CarrySetting =>
        LET n == Len(alphabet) - 1
        IN /\ calls <= n => rotors[1].cursor = calls % n /\ stepped[1] = calls
           /\ calls < n => stepped[2] = 0
           /\ calls = n => stepped[2] = 1
           /\ calls < n * n => stepped[3] = 0
           /\ calls = n * n => stepped[3] = 1

C2_Witness ==
    /\ CarrySetting
    /\ Len(alphabet) = 4
    /\ calls = 9
    /\ stepped = << 9, 3, 1 >>

\* C8: every rotor of a successfully constructed machine, generated or loaded, has
\* 0 <= cursor < wiring.len(), after construction and after any number of steps.
C8_CursorInRange ==
    pc = "rotors_set" =>
        \A i \in DOMAIN rotors :
            0 <= rotors[i].cursor /\ rotors[i].cursor < Len(rotors[i].order)

C8_Witness ==
    /\ pc = "rotors_set"
    /\ rotors_from = "M"
    /\ Len(rotors) = 2
    /\ initial_rotors[1].cursor = Len(rotors[1].order) - 1
    /\ stepped = << 1, 1 >>
    /\ rotors[1].cursor = 0

\* The wiring and the cursor persisted for rotor i (i counts from 1).
persisted_order(i) == order_from_json(passwords_file.content[i]).val

persisted_cursor(i) == cursor_from_line(rotors_cursor_file.content[i]).val

\* Rotors have been loaded, or the loading has failed.
LoadDone ==
    /\ pc # "start"
    /\ rotors_from = "M"
    /\ passwords_file.exists
    /\ rotors_cursor_file.exists

\* Both files hold rotor_num lines.
CountsMatch ==
    /\ Len(passwords_file.content) = rotor_num
    /\ Len(rotors_cursor_file.content) = rotor_num

\* Some rotor of the machine has a persisted wiring and a persisted cursor that is
\* not below the wiring's length.
SomeCursorTooLarge ==
    \E i \in 1..rotor_num :
        /\ i \in DOMAIN passwords_file.content
        /\ i \in DOMAIN rotors_cursor_file.content
        /\ persisted_cursor(i) >= Len(persisted_order(i))

C12_CountMismatchFailsLoad ==
    (LoadDone /\ ~CountsMatch) => pc = "panicked"

C12_Witness ==
    /\ LoadDone
    /\ rotor_num = 2
    /\ Len(passwords_file.content) = 2
    /\ Len(rotors_cursor_file.content) = 3
    /\ pc = "panicked"
    /\ error = "The number of rotors does not match the expected number"

\* Some persisted wiring has a length other than L - 1 or holds a value twice.
SomeWiringIrregular ==
    \E i \in DOMAIN passwords_file.content :
        \/ Len(persisted_order(i)) # Len(alphabet) - 1
        \/ Cardinality(Range(persisted_order(i))) # Len(persisted_order(i))

\* C14: a persisted wiring whose length differs from L - 1 or that holds a value
\* twice is accepted unchanged, and the construction succeeds provided every cursor
\* is below its wiring's length and both files hold rotor_num lines.
C14_IrregularWiringIsAccepted ==
    (LoadDone /\ CountsMatch /\ SomeWiringIrregular /\ ~SomeCursorTooLarge) =>
        /\ pc = "rotors_set"
        /\ \A i \in 1..rotor_num :
               /\ initial_rotors[i].order = persisted_order(i)
               /\ initial_rotors[i].cursor = persisted_cursor(i)

C14_Witness ==
    /\ LoadDone /\ CountsMatch
    /\ Len(alphabet) = 4
    /\ rotor_num = 2
    /\ pc = "rotors_set"
    /\ initial_rotors = << Rotor(<< 1, 1 >>, 1), Rotor(<< 1, 2, 3 >>, 0) >>

\* Rotor i (counted from 1) is stepped once in this step of the machine, and is
\* not stepped in it.
SteppedOnce(i) ==
    /\ stepped'[i] = stepped[i] + 1
    /\ rotors'[i] = step(rotors[i])

NotStepped(i) ==
    /\ stepped'[i] = stepped[i]
    /\ rotors'[i] = rotors[i]

\* One cascade of link_and_move_rotors(0) obeys the carry rule.
CarryRule ==
    (pc = "rotors_set" /\ calls' = calls + 1) =>
        /\ SteppedOnce(1)
        /\ \A i \in 1..(Len(rotors) - 1) :
               IF SteppedOnce(i) /\ rotors'[i].cursor = 0
               THEN SteppedOnce(i + 1)
               ELSE NotStepped(i + 1)
        /\ Len(rotors') = Len(rotors)

\* C17: link_and_move_rotors(0) always steps rotor 0 exactly once; for every
\* i < N - 1, rotor i + 1 is stepped in that cascade if and only if rotor i was
\* stepped in it and its cursor wrapped to 0; the last rotor's wrap steps no
\* rotor; the rotors the carry does not reach keep their cursors.
C17_CarryRule == [][CarryRule]_vars

C17_Witness ==
    /\ pc = "rotors_set"
    /\ Len(rotors) = 3
    /\ calls = 1
    /\ stepped = << 1, 1, 0 >>
    /\ rotors[1].cursor = 0
    /\ rotors[2].cursor # 0
    /\ rotors[3] = initial_rotors[3]

\* C23: every stepping cascade terminates: a call of link_and_move_rotors(0) on a
\* machine with N >= 1 rotors returns after at most N rotor steps, the k-th of
\* them made at depth k on rotor k, so no rotor is stepped twice and the depth is
\* at most N, whatever the cursors and the lengths of the wirings.
C23_CascadeIsBounded ==
    (pc = "rotors_set" /\ Len(rotors) >= 1) =>
        LET cascade == link_and_move_rotors(rotors, 0)
        IN /\ cascade.ok
           /\ Len(cascade.val.log) \in 1..Len(rotors)
           /\ \A k \in DOMAIN cascade.val.log : cascade.val.log[k] = k - 1

C23_Witness ==
    /\ pc = "rotors_set"
    /\ Len(alphabet) = 2
    /\ Len(rotors) = 3
    /\ \A i \in DOMAIN rotors : Len(rotors[i].order) = 1
    /\ link_and_move_rotors(rotors, 0).val.log = << 0, 1, 2 >>
    /\ calls = 1
    /\ stepped = << 1, 1, 1 >>

\* order is a permutation of the integers 1..L-1 for the alphabet a of length L.
IsWiring(order, a) ==
    /\ Len(order) = Len(a) - 1
    /\ \A i \in DOMAIN order : order[i] \in 1..(Len(a) - 1)
    /\ \A i, j \in DOMAIN order : i # j => order[i] # order[j]

\* C15: every wiring generate_order produces for an alphabet of length L is a
\* permutation of the integers 1..L-1: it has length L - 1, every value lies in
\* 1..L-1 and no value repeats, for every outcome of the shuffle, the outcomes
\* the generated rotors hold included.
C15_GeneratedWiringIsPermutation ==
    /\ \A order \in generate_order(alphabet) : IsWiring(order, alphabet)
    /\ (pc = "rotors_set" /\ rotors_from = "m") =>
           \A i \in DOMAIN rotors : IsWiring(rotors[i].order, alphabet)

C15_Witness ==
    /\ pc = "rotors_set"
    /\ rotors_from = "m"
    /\ Len(alphabet) = 4
    /\ rotor_num = 2
    /\ rotors[1].order = << 1, 3, 2 >>
    /\ rotors[2].order = << 1, 2, 3 >>
    /\ << 3, 2, 1 >> \in generate_order(alphabet)

(***************************************************************************)
(* Enciphering.                                                            *)
(***************************************************************************)
RECURSIVE clean_text(_)
\* Cipher::clean_text
clean_text(t) ==
    IF t = << >> THEN << >>
    ELSE IF IsAsciiAlphabetic(Head(t))
    THEN << ToAsciiUppercase(Head(t)) >> \o clean_text(Tail(t))
    ELSE clean_text(Tail(t))

RECURSIVE encipher_ignoring_sign(_, _, _, _, _)
\* encipher_from adding the shift whatever the sign.
encipher_ignoring_sign(a, rs, ch, sign, i) ==
    IF i > Len(rs) THEN Ok(ch)
    ELSE IF rs[i].cursor >= Len(rs[i].order) THEN Err("panic: index out of bounds")
    ELSE IF Find(a, ch) = 0 THEN Err("panic: called Option::unwrap() on a None value")
    ELSE LET new_idx == ((Find(a, ch) - 1) + rs[i].order[rs[i].cursor + 1]) % Len(a)
         IN encipher_ignoring_sign(a, rs, a[new_idx + 1], sign, i + 1)

RECURSIVE encipher_from(_, _, _, _, _)
\* encipher_and_decipher's loop from rotor i on (i counts from 1): the character
\* it returns, or the panic of the index or of the unwrap.
encipher_from(a, rs, ch, sign, i) ==
    IF i > Len(rs) THEN Ok(ch)
    ELSE IF rs[i].cursor >= Len(rs[i].order) THEN Err("panic: index out of bounds")
    ELSE IF Find(a, ch) = 0 THEN Err("panic: called Option::unwrap() on a None value")
    ELSE LET shift == rs[i].order[rs[i].cursor + 1] * sign
             idx == Find(a, ch) - 1
             new_idx == (idx + shift) % Len(a)
         IN encipher_from(a, rs, a[new_idx + 1], sign, i + 1)

\* encipher_and_decipher
encipher_and_decipher(a, rs, ch, sign) == encipher_from(a, rs, ch, sign, 1)

\* move_rotors leaving the rotors where they are after the first alphabet symbol.
move_rotors_by_symbol(rs, c) ==
    IF c = "A" /\ Len(rs) > 0
    THEN Ok([rotors |-> rs, log |-> << >>])
    ELSE link_and_move_rotors(rs, 0)

\* move_rotors calling link_and_move_rotors(0) twice.
move_rotors_twice(rs, c) ==
    LET once == link_and_move_rotors(rs, 0)
    IN IF once.ok THEN link_and_move_rotors(once.val.rotors, 0) ELSE once

\* encrypt's loop body after the push, for the input character c: the call
\* link_and_move_rotors(0).
move_rotors(rs, c) == link_and_move_rotors(rs, 0)

\* encrypt's loop body up to the push: the character pushed for input character c.
encrypt_char(a, pb, rf, rs, c) ==
    LET forward == encipher_and_decipher(a, rs, use_plugboard(pb, c), 1)
        back == encipher_and_decipher(a, rs, use_reflector(rf, forward.val), -1)
    IN IF ~forward.ok THEN forward
       ELSE IF ~back.ok THEN back
       ELSE Ok(use_plugboard(pb, back.val))

(***************************************************************************)
(* The machine: EnigmaMachine::new, then encrypt, then a second run of the *)
(* program on the first run's output, loading the key material the first   *)
(* run used.                                                               *)
(***************************************************************************)
\* The reflector records of the store a machine loads: none, an empty object, the
\* unshuffled pairing, and every symbol mapped to the next symbol of the alphabet.
MachineReflectorFiles(a) ==
    {MissingFile} \cup
    { FileOf(<< map_to_json(m) >>) :
        m \in { EmptyMap, create_reflector(a),
                [s \in Range(a) |-> a[(Find(a, s) % Len(a)) + 1]] } }

\* The rotor records of the store a machine loads: none, or per rotor the
\* unshuffled wiring at cursor 0 or a wiring with a value twice at cursor 1.
MachineRotorFiles(a, num) ==
    { [passwords |-> MissingFile, cursors |-> MissingFile] } \cup
    { [passwords |-> FileOf([i \in 1..num |-> order_to_json(w[i].order)]),
       cursors |-> FileOf([i \in 1..num |-> cursor_to_line(w[i].cursor)])] :
        w \in [1..num -> { Rotor(order_range(a), 0), Rotor(<< 1, 1 >>, 1) }] }

\* The plugboard files of the store: none, no pair, a pair of letters, and a pair
\* of a letter and a character that is no letter.
MachinePlugFiles ==
    { MissingFile, FileOf(<< >>), FileOf(<< << "A", "-", "B" >> >>),
      FileOf(<< << "A", "-", Digit >> >>) }

\* The input files: none, or a text over the alphabet.
InputFiles(a) ==
    {MissingFile} \cup
    { FileOf(t) : t \in UNION { [1..n -> Range(a)] : n \in 0..MaxTextLen } }

Init ==
    /\ alphabet \in { Prefix(Letters, n) : n \in 1..MaxMachineAlphabetLen }
    /\ rotor_num \in 0..MaxRotorNum
    /\ reflector_from \in {"m", "M"}
    /\ rotors_from \in {"m", "M"}
    /\ reflector_file \in IF reflector_from = "m" THEN {MissingFile}
                          ELSE MachineReflectorFiles(alphabet)
    /\ \E store \in IF rotors_from = "m"
                    THEN { [passwords |-> MissingFile, cursors |-> MissingFile] }
                    ELSE MachineRotorFiles(alphabet, rotor_num) :
         /\ passwords_file = store.passwords
         /\ rotors_cursor_file = store.cursors
    /\ plugboard_file \in MachinePlugFiles
    /\ input_file \in InputFiles(alphabet)
    /\ output_file = MissingFile
    /\ plain_text = << >>
    /\ encrypted_text = << >>
    /\ first_text = << >>
    /\ run = 1
    /\ reflector = EmptyMap
    /\ rotors = [i \in 1..rotor_num |-> Rotor(<< >>, 0)]
    /\ plugboard = EmptyMap
    /\ line = << >>
    /\ pairs = << >>
    /\ calls = 0
    /\ stepped = [i \in 1..rotor_num |-> 0]
    /\ initial_rotors = << >>
    /\ pc = "start"
    /\ error = ""
    /\ NoPoly /\ NoCaesar

\* EnigmaMachine::new building the rotors and the plugboard although set_reflector
\* has failed.
new_machine_without_abort(old, rf, rt, pb) ==
    IF ~rf.result.ok
    THEN [old EXCEPT !.pc = "construction_failed", !.error = rf.result.err,
                     !.passwords_file = rt.passwords,
                     !.rotors_cursor_file = rt.cursors,
                     !.rotors = IF rt.result.ok THEN rt.result.val ELSE @,
                     !.plugboard = IF pb.ok THEN pb.val ELSE @]
    ELSE IF ~rt.result.ok
    THEN [old EXCEPT !.pc = "construction_failed", !.error = rt.result.err,
                     !.reflector = rf.result.val, !.reflector_file = rf.file,
                     !.passwords_file = rt.passwords,
                     !.rotors_cursor_file = rt.cursors]
    ELSE [old EXCEPT !.pc = IF pb.ok THEN "constructed" ELSE "construction_failed",
                     !.error = IF pb.ok THEN @ ELSE pb.err,
                     !.reflector = rf.result.val, !.reflector_file = rf.file,
                     !.passwords_file = rt.passwords,
                     !.rotors_cursor_file = rt.cursors,
                     !.rotors = rt.result.val,
                     !.plugboard = IF pb.ok THEN pb.val ELSE @]

\* The body of EnigmaMachine::new on the machine old with its placeholders, for
\* the results rf of set_reflector, rt of set_rotors and pb of set_plugboard: each
\* result is unwrapped in turn, and the first failure ends the construction.
new_machine(old, rf, rt, pb) ==
    IF ~rf.result.ok
    THEN [old EXCEPT !.pc = "construction_failed", !.error = rf.result.err]
    ELSE IF ~rt.result.ok
    THEN [old EXCEPT !.pc = "construction_failed", !.error = rt.result.err,
                     !.reflector = rf.result.val, !.reflector_file = rf.file,
                     !.passwords_file = rt.passwords,
                     !.rotors_cursor_file = rt.cursors]
    ELSE [old EXCEPT !.pc = IF pb.ok THEN "constructed" ELSE "construction_failed",
                     !.error = IF pb.ok THEN @ ELSE pb.err,
                     !.reflector = rf.result.val, !.reflector_file = rf.file,
                     !.passwords_file = rt.passwords,
                     !.rotors_cursor_file = rt.cursors,
                     !.rotors = rt.result.val,
                     !.plugboard = IF pb.ok THEN pb.val ELSE @]

\* EnigmaMachine::new: set_reflector, set_rotors, set_plugboard, each unwrapped.
New ==
    /\ pc = "start"
    /\ \E rf \in { set_reflector(reflector_from, reflector_file, plugs) :
                     plugs \in IF reflector_from = "m"
                               THEN Shuffles(alphabet) ELSE {alphabet} },
          rt \in { set_rotors(alphabet, rotor_num, passwords_file,
                              rotors_cursor_file, rotors_from, picks) :
                     picks \in IF rotors_from = "m"
                               THEN [1..rotor_num -> RotorPicks(alphabet)]
                               ELSE { << >> } } :
         LET old == [pc |-> pc, error |-> error, reflector |-> reflector,
                     reflector_file |-> reflector_file, rotors |-> rotors,
                     passwords_file |-> passwords_file,
                     rotors_cursor_file |-> rotors_cursor_file,
                     plugboard |-> plugboard]
             enigma == new_machine(old, rf, rt, set_plugboard(plugboard_file))
         IN /\ pc' = enigma.pc
            /\ error' = enigma.error
            /\ reflector' = enigma.reflector
            /\ reflector_file' = enigma.reflector_file
            /\ rotors' = enigma.rotors
            /\ initial_rotors' = IF enigma.rotors = rotors THEN initial_rotors
                                 ELSE enigma.rotors
            /\ passwords_file' = enigma.passwords_file
            /\ rotors_cursor_file' = enigma.rotors_cursor_file
            /\ plugboard' = enigma.plugboard
    /\ UNCHANGED << polyVars, caesarVars, alphabet, reflector_from, rotor_num, rotors_from, calls, stepped,
                    plugboard_file, line, pairs, textVars >>

\* encrypt, up to its loop: get_text and clean_text.
GetText ==
    /\ pc = "constructed"
    /\ IF input_file.exists
       THEN /\ plain_text' = clean_text(input_file.content)
            /\ pc' = "encrypting"
            /\ error' = error
       ELSE /\ plain_text' = plain_text
            /\ pc' = "encrypt_failed"
            /\ error' = "NotFound"
    /\ UNCHANGED << polyVars, caesarVars, alphabet, encrypted_text, input_file, output_file, first_text,
                    run, reflectorVars, rotorVars, plugVars >>

\* One iteration of encrypt's loop: the character is enciphered and pushed, then
\* the rotors are moved.
EncryptChar ==
    /\ pc = "encrypting"
    /\ Len(encrypted_text) < Len(plain_text)
    /\ LET c == plain_text[Len(encrypted_text) + 1]
           ch == encrypt_char(alphabet, plugboard, reflector, rotors, c)
           moved == move_rotors(rotors, c)
       IN IF ~ch.ok
          THEN /\ pc' = "encrypt_panicked"
               /\ error' = ch.err
               /\ UNCHANGED << encrypted_text, rotors, stepped, calls >>
          ELSE /\ encrypted_text' = Append(encrypted_text, ch.val)
               /\ IF moved.ok
                  THEN /\ rotors' = moved.val.rotors
                       /\ stepped' = count_steps(stepped, moved.val.log)
                       /\ calls' = calls + 1
                       /\ UNCHANGED << pc, error >>
                  ELSE /\ pc' = "encrypt_panicked"
                       /\ error' = moved.err
                       /\ UNCHANGED << rotors, stepped, calls >>
    /\ UNCHANGED << polyVars, caesarVars, alphabet, plain_text, input_file, output_file, first_text, run,
                    rotor_num, rotors_from, passwords_file, rotors_cursor_file,
                    initial_rotors, reflectorVars, plugVars >>

\* The end of encrypt: save_file.
SaveFile ==
    /\ pc = "encrypting"
    /\ Len(encrypted_text) = Len(plain_text)
    /\ output_file' = FileOf(encrypted_text)
    /\ pc' = "saved"
    /\ UNCHANGED << polyVars, caesarVars, alphabet, plain_text, encrypted_text, input_file, first_text,
                    run, error, reflectorVars, rotorVars, plugVars >>

\* The program is run again with its defaults (main.rs: reflector_from and
\* rotors_from default to "M"), on the first run's output and the same store.
RunAgain ==
    /\ pc = "saved"
    /\ run = 1
    /\ run' = 2
    /\ first_text' = plain_text
    /\ input_file' = output_file
    /\ output_file' = MissingFile
    /\ plain_text' = << >>
    /\ encrypted_text' = << >>
    /\ reflector_from' = "M"
    /\ rotors_from' = "M"
    /\ reflector' = EmptyMap
    /\ rotors' = [i \in 1..rotor_num |-> Rotor(<< >>, 0)]
    /\ plugboard' = EmptyMap
    /\ calls' = 0
    /\ stepped' = [i \in 1..rotor_num |-> 0]
    /\ initial_rotors' = << >>
    /\ pc' = "start"
    /\ UNCHANGED << polyVars, caesarVars, alphabet, rotor_num, reflector_file, passwords_file,
                    rotors_cursor_file, plugboard_file, line, pairs, error >>

Next == New \/ GetText \/ EncryptChar \/ SaveFile \/ RunAgain

Spec == Init /\ [][Next]_vars

\* C1: for any key material of a successfully constructed machine and any text
\* over the alphabet, encrypting the text and then encrypting the output with a
\* machine started from the same initial key material reproduces the text symbol
\* for symbol: when the second run has saved its output, that output is the text
\* the first run read.
C1_RoundTrip ==
    (pc = "saved" /\ run = 2) => encrypted_text = first_text

\* C5: the machine never enciphers a symbol to itself: while encrypt's loop runs
\* and after it has saved, at every position enciphered so far the output symbol
\* differs from the input symbol at that position.
C5_NeverEnciphersToItself ==
    pc \in {"encrypting", "saved"} =>
        \A k \in DOMAIN encrypted_text : encrypted_text[k] # plain_text[k]

\* C10: encode has no failure path except the final write: once the machine is
\* constructed and the input is read and cleaned, the loop over the symbols never
\* panics, for every key material that construction accepts.
C10_EncodeNeverPanics ==
    pc # "encrypt_panicked"

RECURSIVE rotors_after(_, _)
\* The rotors rs after k calls of link_and_move_rotors(0).
rotors_after(rs, k) ==
    IF k = 0 THEN rs
    ELSE link_and_move_rotors(rotors_after(rs, k - 1), 0).val.rotors

\* C18: the stepping depends only on the position: whatever the text, the
\* reflector and the plugboard, the rotors after the k-th symbol are the rotors
\* the construction left, moved k times, so two runs that start from the same
\* wirings and cursors have the same cursors after every symbol.
C18_SteppingDependsOnlyOnPosition ==
    pc \in {"encrypting", "saved"} =>
        rotors = rotors_after(initial_rotors, Len(encrypted_text))

C18_Witness ==
    /\ pc = "encrypting"
    /\ run = 2
    /\ plain_text # first_text
    /\ Len(plain_text) = 2
    /\ Len(encrypted_text) = 1
    /\ rotors # initial_rotors
    /\ rotors = rotors_after(initial_rotors, 1)

\* The rotors rs in the reversed order.
Reversed(rs) == [i \in 1..Len(rs) |-> rs[Len(rs) + 1 - i]]

substitution(rs) ==
    [c \in Range(alphabet) |-> encrypt_char(alphabet, plugboard, reflector, rs, c)]

RECURSIVE shift_sum(_, _)
\* The sum of the shifts order[cursor] of the rotors i.. of rs (i counts from 1).
shift_sum(rs, i) ==
    IF i > Len(rs) THEN 0
    ELSE rs[i].order[rs[i].cursor + 1] + shift_sum(rs, i + 1)

\* The shift, modulo L, of a pass through the rotors rs.
total_shift(rs) == shift_sum(rs, 1) % Len(alphabet)

\* The loop of encrypt goes from a text position to the next text position.
NextPosition ==
    /\ pc = "encrypting" /\ pc' = "encrypting"
    /\ Len(encrypted_text') = Len(encrypted_text) + 1
    /\ Len(encrypted_text') < Len(plain_text)

\* The rotors have been advanced by exactly one stepping cascade.
AdvancedOnce ==
    /\ link_and_move_rotors(rotors, 0).ok
    /\ rotors' = link_and_move_rotors(rotors, 0).val.rotors

KeyMaterialKept ==
    /\ Len(rotors') = Len(rotors)
    /\ \A i \in DOMAIN rotors : rotors'[i].order = rotors[i].order
    /\ reflector' = reflector
    /\ plugboard' = plugboard
    /\ rotor_num' = rotor_num

\* C21: encoding changes only the rotor cursors and the text buffers: across any
\* run of encrypt every rotor's wiring, the reflector, the plugboard and the number
\* of rotors are unchanged.
C21_EncodingKeepsKeyMaterial ==
    [][(pc \in {"constructed", "encrypting"}) => KeyMaterialKept]_vars

C21_Witness ==
    /\ pc = "saved"
    /\ Len(encrypted_text) = 1
    /\ rotors[1].cursor # initial_rotors[1].cursor
    /\ rotors[1].order = << 1, 2 >>
    /\ initial_rotors[1].order = << 1, 2 >>
    /\ reflector = [s \in {"A", "B"} |-> IF s = "A" THEN "B" ELSE "A"]
    /\ plugboard = [s \in {"A", "B"} |-> IF s = "A" THEN "B" ELSE "A"]

\* C22: the persisted key material reproduces the generating machine's initial
\* state: once a machine has generated its reflector and its rotor_num rotors, the
\* store holds one wiring line and one cursor line per rotor, and a machine that
\* loads the store with the same rotor_num gets the reflector, the wirings and the
\* initial cursors the first machine had before encoding, also after the first
\* machine has run encrypt.
C22_StoreReproducesInitialState ==
    (/\ run = 1 /\ reflector_from = "m" /\ rotors_from = "m"
     /\ pc \in {"constructed", "encrypting", "encrypt_failed", "encrypt_panicked",
                "saved"}) =>
        /\ Len(passwords_file.content) = rotor_num
        /\ Len(rotors_cursor_file.content) = rotor_num
        /\ set_reflector("M", reflector_file, alphabet).result = Ok(reflector)
        /\ set_rotors(alphabet, rotor_num, passwords_file, rotors_cursor_file,
                      "M", << >>).result = Ok(initial_rotors)

\* set_reflector fails, or has failed, in this run.
ReflectorFails ==
    reflector_from = "M" /\ ~load_reflector(reflector_file).ok

\* set_rotors fails, or has failed, in this run.
RotorsFail ==
    IF rotors_from = "m"
    THEN rotor_num > 0 /\ Len(alphabet) = 1
    ELSE ~load_rotors(alphabet, rotor_num, passwords_file, rotors_cursor_file).ok

\* set_plugboard fails, or has failed, in this run.
PlugboardFails == ~set_plugboard(plugboard_file).ok

\* The reflector, the rotors, the plugboard have not been built.
ReflectorNotBuilt == reflector = EmptyMap

RotorsNotBuilt ==
    /\ rotors = [i \in 1..rotor_num |-> Rotor(<< >>, 0)]
    /\ rotors_from = "m" => ~passwords_file.exists /\ ~rotors_cursor_file.exists

PlugboardNotBuilt == plugboard = EmptyMap

\* The reflector, the rotors have been built.
ReflectorBuilt ==
    /\ load_reflector(reflector_file).ok
    /\ reflector = load_reflector(reflector_file).val

RotorsBuilt ==
    /\ passwords_file.exists /\ rotors_cursor_file.exists
    /\ CountsMatch
    /\ initial_rotors =
           [i \in 1..rotor_num |-> Rotor(persisted_order(i), persisted_cursor(i))]

\* encrypt has not run.
EncryptNotRun ==
    /\ plain_text = << >>
    /\ encrypted_text = << >>
    /\ ~output_file.exists

\* After EnigmaMachine::new: the first component that fails, in the order
\* reflector, rotors, plugboard, ends the construction with the components before
\* it built and none after it; with no failure the machine is constructed.
AllOrNothing ==
    pc # "start" =>
        /\ ReflectorFails =>
               /\ pc = "construction_failed"
               /\ ReflectorNotBuilt /\ RotorsNotBuilt /\ PlugboardNotBuilt
        /\ (~ReflectorFails /\ RotorsFail) =>
               /\ pc = "construction_failed"
               /\ ReflectorBuilt /\ PlugboardNotBuilt
               /\ rotors = [i \in 1..rotor_num |-> Rotor(<< >>, 0)]
        /\ (~ReflectorFails /\ ~RotorsFail /\ PlugboardFails) =>
               /\ pc = "construction_failed"
               /\ ReflectorBuilt /\ RotorsBuilt /\ PlugboardNotBuilt
        /\ (~ReflectorFails /\ ~RotorsFail /\ ~PlugboardFails) =>
               /\ pc # "construction_failed"
               /\ ReflectorBuilt /\ RotorsBuilt
               /\ plugboard = set_plugboard(plugboard_file).val
        /\ pc = "construction_failed" => EncryptNotRun

\* C13: the components are built in the order reflector, rotors, plugboard; the
\* first component whose construction fails aborts the setup and no later
\* component is built; encrypt never runs on a machine whose construction failed:
\* a failed construction is never left.
C13_ConstructionIsAllOrNothing ==
    /\ []AllOrNothing
    /\ [][pc = "construction_failed" => pc' = "construction_failed"]_vars

C13_Witness ==
    /\ pc = "construction_failed"
    /\ run = 1
    /\ reflector_from = "m" /\ reflector_file.exists
    /\ reflector = [s \in Range(alphabet) |-> IF s = "A" THEN "B" ELSE "A"]
    /\ rotors_from = "M" /\ ~passwords_file.exists /\ error = "NotFound"
    /\ plugboard_file = FileOf(<< << "A", "-", "B" >> >>)
    /\ plugboard = EmptyMap

(***************************************************************************)
(* The Caesar cipher: CaesarCipher::encrypt on a text.                     *)
(***************************************************************************)
\* x + y on i32, for x >= 0: the sum, or on overflow the panic of a build with
\* overflow checks and the wrapped sum of a build without.
i32_add(x, y, checks) ==
    IF x > 0 /\ y > MaxI32 - x
    THEN IF checks
         THEN Err("panic: attempt to add with overflow")
         ELSE Ok(MinI32 + ((x - 1) - (MaxI32 - y)))
    ELSE Ok(x + y)

\* i32::rem_euclid for a positive modulus
rem_euclid(x, n) == x % n

\* Cipher::change_index
change_index(alphabet_len, index, s, checks) ==
    LET sum == i32_add(index, s, checks)
    IN IF sum.ok THEN Ok(rem_euclid(sum.val, alphabet_len)) ELSE sum

\* CaesarCipher::encrypt_char
caesar_encrypt_char(a, ch, s, checks) ==
    IF Find(a, ch) = 0
    THEN Err("panic: Character not found in alphabet")
    ELSE LET new_idx == change_index(Len(a), Find(a, ch) - 1, s, checks)
         IN IF new_idx.ok THEN Ok(a[new_idx.val + 1]) ELSE new_idx

\* CaesarCipher::encrypt's map over the characters of the text, collected.
caesar_encrypt_text(a, text, s, checks) ==
    Collect([k \in DOMAIN text |-> caesar_encrypt_char(a, text[k], s, checks)])

\* The shifts --shift is given.
Shifts ==
    ((-MaxShift)..MaxShift)
        \cup { MaxI32 - k : k \in 0..MaxShift }
        \cup { MinI32 + k : k \in 0..MaxShift }

\* The input files of the Caesar cipher: none, or a text of symbols of the
\* alphabet, of the lower-case a and of a digit.
CaesarInputFiles(a) ==
    {MissingFile} \cup
    { FileOf(t) :
        t \in UNION { [1..n -> Range(a) \cup {"a", Digit}] : n \in 0..MaxTextLen } }

InitCaesar ==
    /\ alphabet \in Alphabets
    /\ caesar_shift \in Shifts
    /\ overflow_checks \in BOOLEAN
    /\ input_file \in CaesarInputFiles(alphabet)
    /\ output_file = MissingFile
    /\ plain_text = << >>
    /\ encrypted_text = << >>
    /\ first_text = << >>
    /\ run = 1
    /\ pc = "start"
    /\ error = ""
    /\ NoPoly /\ NoReflector /\ NoRotors /\ NoPlugboard

\* CaesarCipher::encrypt, up to its map: get_text and clean_text.
CaesarGetText ==
    /\ pc = "start"
    /\ IF input_file.exists
       THEN /\ plain_text' = clean_text(input_file.content)
            /\ pc' = "encrypting"
            /\ error' = error
       ELSE /\ plain_text' = plain_text
            /\ pc' = "encrypt_failed"
            /\ error' = "NotFound"
    /\ UNCHANGED << polyVars, caesarVars, alphabet, encrypted_text, input_file, output_file,
                    first_text, run, reflectorVars, rotorVars, plugVars >>

\* CaesarCipher::encrypt's map and collect into encrypted_text.
CaesarEncryptText ==
    /\ pc = "encrypting"
    /\ LET r == caesar_encrypt_text(alphabet, plain_text, caesar_shift, overflow_checks)
       IN IF r.ok
          THEN /\ encrypted_text' = r.val
               /\ pc' = "encrypted"
               /\ error' = error
          ELSE /\ encrypted_text' = encrypted_text
               /\ pc' = "encrypt_panicked"
               /\ error' = r.err
    /\ UNCHANGED << polyVars, caesarVars, alphabet, plain_text, input_file, output_file,
                    first_text, run, reflectorVars, rotorVars, plugVars >>

\* The end of CaesarCipher::encrypt: save_file.
CaesarSaveFile ==
    /\ pc = "encrypted"
    /\ output_file' = FileOf(encrypted_text)
    /\ pc' = "saved"
    /\ UNCHANGED << polyVars, caesarVars, alphabet, plain_text, encrypted_text, input_file,
                    first_text, run, error, reflectorVars, rotorVars, plugVars >>

NextCaesar == CaesarGetText \/ CaesarEncryptText \/ CaesarSaveFile

SpecCaesar == InitCaesar /\ [][NextCaesar]_vars

\* C16: for every alphabet index i and every shift s, positive or negative, the
\* Caesar cipher maps symbol i to the symbol at index (i + s) mod L, so any two
\* shifts congruent modulo L give the same output on every text: once the text is
\* read the cipher enciphers it, every symbol to the symbol (i + s) mod L, which
\* is also what every congruent shift gives.
C16_ShiftCipher ==
    pc \in {"encrypting", "encrypted", "encrypt_panicked", "saved"} =>
        /\ pc # "encrypt_panicked"
        /\ pc \in {"encrypted", "saved"} =>
               /\ Len(encrypted_text) = Len(plain_text)
               /\ \A k \in DOMAIN plain_text :
                      LET i == Find(alphabet, plain_text[k]) - 1
                          L == Len(alphabet)
                      IN encrypted_text[k] = alphabet[((i + (caesar_shift % L)) % L) + 1]
               /\ \A s \in Shifts :
                      s % Len(alphabet) = caesar_shift % Len(alphabet) =>
                          caesar_encrypt_text(alphabet, plain_text, s, overflow_checks)
                              = Ok(encrypted_text)

(***************************************************************************)
(* The polyalphabetic cipher: the poly subcommand and                      *)
(* PolyalphabeticCipher::encrypt on a text.                                *)
(***************************************************************************)
\* get_flag("decrypt") of the poly subcommand: the argument is declared with
\* ArgAction::SetFalse, whose value is true until the flag is given and false
\* once it is.
get_flag_decrypt(given) == ~given

\* The key PolyalphabeticCipher::new computes from a keyword over the alphabet:
\* the index of each symbol, plus one.
key_of(a, keyword) == [k \in DOMAIN keyword |-> (Find(a, keyword[k]) - 1) + 1]

\* PolyalphabeticCipher::encrypt_char
poly_encrypt_char(a, c, ky, idx, sign, checks) ==
    IF Len(ky) = 0
    THEN Err("panic: attempt to calculate the remainder with a divisor of zero")
    ELSE IF Find(a, c) = 0
    THEN Err("panic: called Option::unwrap() on a None value")
    ELSE LET s == ky[(idx % Len(ky)) + 1] * sign
             new_idx == change_index(Len(a), Find(a, c) - 1, s, checks)
         IN IF new_idx.ok THEN Ok(a[new_idx.val + 1]) ELSE new_idx

\* PolyalphabeticCipher::encrypt's sign and its map over the enumerated
\* characters of the text, collected.
poly_encrypt_text(a, text, ky, d, checks) ==
    LET sign == IF d THEN -1 ELSE 1
    IN Collect([k \in DOMAIN text |-> poly_encrypt_char(a, text[k], ky, k - 1, sign, checks)])

\* The keywords --keyword is given: the words over the alphabet, the empty one
\* included.
Keywords(a) == UNION { [1..n -> Range(a)] : n \in 0..MaxKeywordLen }

\* main's poly dispatch, after PolyalphabeticCipher::new.
InitPoly ==
    /\ alphabet \in Alphabets
    /\ decrypt_flag \in BOOLEAN
    /\ decrypt = get_flag_decrypt(decrypt_flag)
    /\ \E keyword \in Keywords(alphabet) : key = key_of(alphabet, keyword)
    /\ input_file \in CaesarInputFiles(alphabet)
    /\ output_file = MissingFile
    /\ plain_text = << >>
    /\ encrypted_text = << >>
    /\ first_text = << >>
    /\ run = 1
    /\ pc = "start"
    /\ error = ""
    /\ NoCaesar /\ NoReflector /\ NoRotors /\ NoPlugboard

\* PolyalphabeticCipher::encrypt, up to its map: get_text and clean_text.
PolyGetText ==
    /\ pc = "start"
    /\ IF input_file.exists
       THEN /\ plain_text' = clean_text(input_file.content)
            /\ pc' = "encrypting"
            /\ error' = error
       ELSE /\ plain_text' = plain_text
            /\ pc' = "encrypt_failed"
            /\ error' = "NotFound"
    /\ UNCHANGED << polyVars, caesarVars, alphabet, encrypted_text, input_file, output_file,
                    first_text, run, reflectorVars, rotorVars, plugVars >>

\* PolyalphabeticCipher::encrypt's map and collect into encrypted_text.
PolyEncryptText ==
    /\ pc = "encrypting"
    /\ LET r == poly_encrypt_text(alphabet, plain_text, key, decrypt, overflow_checks)
       IN IF r.ok
          THEN /\ encrypted_text' = r.val
               /\ pc' = "encrypted"
               /\ error' = error
          ELSE /\ encrypted_text' = encrypted_text
               /\ pc' = "encrypt_panicked"
               /\ error' = r.err
    /\ UNCHANGED << polyVars, caesarVars, alphabet, plain_text, input_file, output_file,
                    first_text, run, reflectorVars, rotorVars, plugVars >>

\* The end of PolyalphabeticCipher::encrypt: save_file.
PolySaveFile ==
    /\ pc = "encrypted"
    /\ output_file' = FileOf(encrypted_text)
    /\ pc' = "saved"
    /\ UNCHANGED << polyVars, caesarVars, alphabet, plain_text, encrypted_text, input_file,
                    first_text, run, error, reflectorVars, rotorVars, plugVars >>

\* The poly subcommand invoked a second time on the output of the first, under
\* the same keyword and with the decrypt flag the other way.
PolyRunAgain ==
    /\ pc = "saved"
    /\ run = 1
    /\ run' = 2
    /\ decrypt_flag' = ~decrypt_flag
    /\ decrypt' = get_flag_decrypt(decrypt_flag')
    /\ key' = key
    /\ first_text' = plain_text
    /\ input_file' = output_file
    /\ output_file' = MissingFile
    /\ plain_text' = << >>
    /\ encrypted_text' = << >>
    /\ pc' = "start"
    /\ UNCHANGED << caesarVars, alphabet, error, reflectorVars, rotorVars, plugVars >>

NextPoly == PolyGetText \/ PolyEncryptText \/ PolySaveFile \/ PolyRunAgain

SpecPoly == InitPoly /\ [][NextPoly]_vars

\* The symbol the running-key cipher gives for the k-th symbol of the text when
\* the keyword offsets are applied with the sign sgn.
KeyedSymbol(k, sgn) ==
    LET i == Find(alphabet, plain_text[k]) - 1
        L == Len(alphabet)
    IN alphabet[((i + sgn * key[((k - 1) % Len(key)) + 1]) % L) + 1]

\* C24: the decrypt flag of the poly subcommand selects the direction as its name
\* says: without --decrypt the running-key cipher adds the keyword offsets (sign
\* +1), with --decrypt it subtracts them (sign -1), so a run without the flag
\* followed by a run with the flag under the same keyword restores the text.
C24_DecryptFlagSelectsDirection ==
    pc \in {"encrypted", "saved"} =>
        /\ Len(encrypted_text) = Len(plain_text)
        /\ \A k \in DOMAIN plain_text :
               encrypted_text[k] = KeyedSymbol(k, IF decrypt_flag THEN -1 ELSE 1)
        /\ (run = 2 /\ decrypt_flag) => encrypted_text = first_text

====
